---- MODULE Spec2Model ----
(***************************************************************************)
(* Model of the Walla export scrapers.  The repository holds four variants *)
(* of the same Express service:                                            *)
(*   "fp"    src/server.js          first-purchase export (current)        *)
(*   "sales" src/unnamed/part_000   cash-basis sales export                *)
(*   "fp1"   src/unnamed/part_001   first-purchase export (earlier)        *)
(*   "fp0"   src/unnamed/part_002   first-purchase export (earliest)       *)
(* One deployment runs one variant (svc).  A request walks the Express     *)
(* middleware chain synchronously and, when it is a valid export request,  *)
(* runs the browser flow, one action per awaited operation.  What the      *)
(* target site, the browser and the webhook endpoint do is chosen by the   *)
(* environment at each awaited operation.                                  *)
(***************************************************************************)
EXTENDS Integers, Sequences, FiniteSets, TLC

VARIABLES svc, env, listening, inbox, rq, browsers, posts

vars == <<svc, env, listening, inbox, rq, browsers, posts>>

----------------------------------------------------------------------------
(* Values *)

\* JavaScript's undefined / null
NONE == "<none>"

Services == {"fp", "sales", "fp1", "fp0"}

\* the requests the model follows
Reqs == {1, 2}

\* the number of browser processes the model has room for
MaxBrowsers == 2

\* browser processes are numbered in launch order
BrowserIds == 1..MaxBrowsers

\* JavaScript truthiness of a string-or-undefined value
Truthy(v) == v # NONE /\ v # ""

\* JavaScript's a || b
JsOr(a, b) == IF Truthy(a) THEN a ELSE b

\* the URLs a page can be at: the path is the login page, the service's
\* report page or some other page of the site; q says which literal segment
\* the query string holds ("none", "/login" or the report path)
Urls ==
  { [path |-> "login",  q |-> "none"],
    [path |-> "report", q |-> "none"],
    [path |-> "other",  q |-> "none"],
    [path |-> "other",  q |-> "login"],
    [path |-> "other",  q |-> "report"] }

BlankUrl == [path |-> "blank", q |-> "none"]

\* url.pathname.includes("/login")
PathIncludesLogin(u) == u.path = "login"

\* page.url().includes("/login"): the whole href, query string included
HrefIncludesLogin(u) == u.path = "login" \/ u.q = "login"

\* url.href.includes("/reports/<kind>")
HrefIncludesReport(u) == u.path = "report" \/ u.q = "report"

isLoginPage(u) == PathIncludesLogin(u)

isReportPage(u) == u.path = "report"

----------------------------------------------------------------------------
(* Responses *)

\* webhookResult: the key is absent, null, or an object
AbsentWebhookResult == [kind |-> "absent", ok |-> NONE, status |-> 0, error |-> NONE]

NullWebhookResult == [kind |-> "null", ok |-> NONE, status |-> 0, error |-> NONE]

TextResponse(body) ==
  [status |-> 200, ok |-> NONE, error |-> NONE, text |-> body,
   fileName |-> NONE, mimeType |-> NONE, fileBase64 |-> NONE,
   webhookResult |-> AbsentWebhookResult]

JsonError(st, okField, code) ==
  [status |-> st, ok |-> okField, error |-> code, text |-> NONE,
   fileName |-> NONE, mimeType |-> NONE, fileBase64 |-> NONE,
   webhookResult |-> AbsentWebhookResult]

SuccessResponse(result, wr) ==
  [status |-> 200, ok |-> "true", error |-> NONE, text |-> NONE,
   fileName |-> result.fileName, mimeType |-> result.mimeType,
   fileBase64 |-> result.fileBase64, webhookResult |-> wr]

\* faulty variant: the response goes out and the handler carries on from where it is
Send_NoReturn(rec, response) == [rec EXCEPT !.resp = Append(@, response)]

\* res.send / res.json: the response goes out and the handler returns
Send(rec, response) ==
  [rec EXCEPT !.resp = Append(@, response), !.pc = "done"]

----------------------------------------------------------------------------
(* Request gateway: the middleware chain up to the first await *)

\* the body of the 401 answer; the earliest variant leaves out ok:false
UnauthorizedBody(s) ==
  IF s = "fp0" THEN JsonError(401, NONE, "unauthorized")
  ELSE JsonError(401, "false", "unauthorized")

\* the token the auth middleware compares: req.get("x-api-key") || req.query.key
PresentedToken(req) == JsOr(req.hdrKey, req.qKey)

\* faulty variant: the token is the one the process was started with
AuthToken_AtStart(e) == JsOr("tok", "")

\* AUTH_TOKEN = process.env.SCRAPER_TOKEN || ""
AuthToken(e) == JsOr(e.SCRAPER_TOKEN, "")

\* TRUE when the auth middleware calls next()
AuthAdmits(e, req) ==
  IF ~Truthy(AuthToken(e)) THEN TRUE
  ELSE PresentedToken(req) = AuthToken(e)

\* faulty variant: the query parameter is looked at before the environment
ResolveUsername_QueryFirst(e, req) == JsOr(req.qUser, e.WALLA_USER)

\* process.env.WALLA_USER || req.query.user
ResolveUsername(e, req) == JsOr(e.WALLA_USER, req.qUser)

\* process.env.WALLA_PASS || req.query.pass
ResolvePassword(e, req) == JsOr(e.WALLA_PASS, req.qPass)

\* faulty variant: the credentials are never checked before the browser is launched
ExportHandlerSync_NoCredentialCheck(e, req, rec) ==
  LET h == [rec EXCEPT !.start = req.start, !.end = req.end,
                       !.webhook = req.webhook]
  IN  IF ~Truthy(h.start) \/ ~Truthy(h.end)
      THEN Send(h, JsonError(400, "false", "missing_params"))
      ELSE [h EXCEPT !.username = ResolveUsername(e, req),
                     !.password = ResolvePassword(e, req), !.pc = "launch"]

\* the export handler up to its first await (withBrowser -> chromium.launch):
\* const { start, end, webhook } = req.query, the two 400 checks, and the
\* credentials the flow will use
ExportHandlerSync(e, req, rec) ==
  LET h == [rec EXCEPT !.start = req.start, !.end = req.end,
                       !.webhook = req.webhook]
  IN  IF ~Truthy(h.start) \/ ~Truthy(h.end)
      THEN Send(h, JsonError(400, "false", "missing_params"))
      ELSE LET u == ResolveUsername(e, req)
               p == ResolvePassword(e, req)
           IN  IF ~Truthy(u) \/ ~Truthy(p)
               THEN Send(h, JsonError(400, "false", "missing_credentials"))
               ELSE [h EXCEPT !.username = u, !.password = p, !.pc = "launch"]

\* faulty variant: the auth middleware is registered before the healthcheck route
Pipeline_AuthFirst == <<"auth", "healthz", "export">>

\* the order in which the routes and middleware are registered on the app
Pipeline == <<"healthz", "auth", "export">>

RECURSIVE Walk(_, _, _, _, _)
\* Express hands the request to each layer in registration order; a request
\* no layer answers gets Express's own 404
Walk(s, e, req, rec, i) ==
  IF i > Len(Pipeline)
  THEN Send(rec, JsonError(404, NONE, "not_found"))
  ELSE LET layer == Pipeline[i] IN
       CASE layer = "healthz" ->
              IF req.route = "healthz" THEN Send(rec, TextResponse("ok"))
              ELSE Walk(s, e, req, rec, i + 1)
         [] layer = "auth" ->
              IF AuthAdmits(e, req)
              THEN Walk(s, e, req, [rec EXCEPT !.admitted = TRUE], i + 1)
              ELSE Send(rec, UnauthorizedBody(s))
         [] layer = "export" ->
              IF req.route = "export" THEN ExportHandlerSync(e, req, rec)
              ELSE Walk(s, e, req, rec, i + 1)

Dispatch(s, e, req, rec) == Walk(s, e, req, rec, 1)

----------------------------------------------------------------------------
(* Request state *)

NoUrlYet == BlankUrl

NoResult == [fileName |-> NONE, mimeType |-> NONE, fileBase64 |-> NONE]

\* an HTTP request on its way to the server
Message(route, hdrKey, qKey, start, end, qUser, qPass, webhook) ==
  [route |-> route, hdrKey |-> hdrKey, qKey |-> qKey, start |-> start,
   end |-> end, qUser |-> qUser, qPass |-> qPass, webhook |-> webhook]

\* no request on its way
NoMessage == Message(NONE, NONE, NONE, NONE, NONE, NONE, NONE, NONE)

\* a device-scale-factor hint: a number or a numeric string (n, in tenths),
\* a string that is no number, or none
NumberHint(n) == [kind |-> "number", n |-> n]

NumericStringHint(n) == [kind |-> "numericString", n |-> n]

TextHint == [kind |-> "text", n |-> 0]

NoHint == [kind |-> "undefined", n |-> 0]

\* the opts the export handlers pass to withBrowser: none, so opts = {}
NoOpts == [dpr |-> NoHint]

\* Number(x), in tenths; a value that is no number gives NaN
ToNumber(h) ==
  IF h.kind \in {"number", "numericString"} THEN [nan |-> FALSE, n |-> h.n]
  ELSE [nan |-> TRUE, n |-> 0]

\* x || 2 for a number x, in tenths: NaN and 0 are falsy
OrTwo(x) == IF x.nan \/ x.n = 0 THEN 20 ELSE x.n

Min(a, b) == IF a <= b THEN a ELSE b

Max(a, b) == IF a >= b THEN a ELSE b

\* faulty variant: the hint is used as it is given
DeviceScaleFactor_Unclamped(opts) == OrTwo(ToNumber(opts.dpr))

\* const dpr = Math.max(1, Math.min(4, Number(opts.dpr) || 2)), in tenths
DeviceScaleFactor(opts) == Max(10, Min(40, OrTwo(ToNumber(opts.dpr))))

\* what the server holds for a request: the handler's locals, the page's
\* URL, and the record of what was done for it
NewHandler ==
  [pc |-> "waiting", route |-> NONE,
   start |-> NONE, end |-> NONE, webhook |-> NONE,
   admitted |-> FALSE, username |-> NONE, password |-> NONE,
   opts |-> NoOpts, dpr |-> 0, launches |-> 0, browser |-> 0, url |-> NoUrlYet, err |-> NONE,
   found |-> {}, typed |-> {}, emailTyped |-> NONE, passTyped |-> NONE, loginClicks |-> 0, submitted |-> FALSE,
   leftLogin |-> FALSE,
   tried |-> <<>>, located |-> NONE, armed |-> FALSE, exportClicks |-> 0,
   fired |-> FALSE, captured |-> FALSE, downloads |-> 0,
   fileName |-> NONE, reported |-> NONE, mimeType |-> NONE,
   streamOpen |-> FALSE, streamEvent |-> NONE,
   result |-> NoResult, returned |-> FALSE,
   webhookResult |-> NullWebhookResult, resp |-> <<>>]

HeaderValues == {NONE, "", "bad", "tok"}
KeyValues == {NONE, "bad", "tok"}
DateValues == {NONE, "", "2024-01-01"}
QueryCredValues == {NONE, "q"}
EnvCredValues == {NONE, "", "e"}
WebhookValues == {NONE, "", "https://hook"}
TokenValues == {NONE, "", "tok"}

ArrivingRequests ==
  { Message(route, h, k, s, e, u, p, w) :
      route \in {"healthz", "export"}, h \in HeaderValues, k \in KeyValues,
      s \in DateValues, e \in DateValues,
      u \in QueryCredValues, p \in QueryCredValues, w \in WebhookValues }

PortValues == {NONE, "", "9090"}

\* the environments of the deployments followed request by request: PORT unset
Environments ==
  [SCRAPER_TOKEN : TokenValues, WALLA_USER : EnvCredValues,
   WALLA_PASS : EnvCredValues, PORT : {NONE}]

\* the server is not listening yet
NotListening == 0

\* the fallback of process.env.PORT || 8080
DefaultPort == 8080

\* the port number a PORT string stands for
PortNumber(p) == CASE p = "9090" -> 9090

\* const PORT = process.env.PORT || 8080; app.listen(PORT)
ListenPort(e) == IF Truthy(e.PORT) THEN PortNumber(e.PORT) ELSE DefaultPort

NoBrowser == [state |-> "none", closeCalls |-> 0, owner |-> 0]

----------------------------------------------------------------------------
(* Error handling of the export handler *)

\* faulty variant: the message is matched on "not found" alone
MessageSaysNoExportButton_AnyNotFound(e) ==
  e \in {"exportNotFound", "exportNotFoundOnPage", "emailNotFound",
         "passwordNotFound", "loginButtonNotFound"}

\* String(err) includes "Export button not found" or "likely no data"
MessageSaysNoExportButton(e) == e \in {"exportNotFound", "exportNotFoundOnPage"}

\* the catch block of the export handler
ErrorResponse(s, e) ==
  IF s = "fp" /\ MessageSaysNoExportButton(e)
  THEN JsonError(200, "false", "no_export_button")
  ELSE JsonError(500, "false", "export_failed")

\* faulty variant: no finally block, an error leaves withBrowser without closing
Fail_SkipClose(rec, e) == Send([rec EXCEPT !.err = e], ErrorResponse(svc, e))

\* faulty variant: the failure is answered where it is thrown, before the
\* finally block has closed the browser
Fail_AnswerFirst(rec, e) ==
  [rec EXCEPT !.err = e, !.resp = Append(@, ErrorResponse(svc, e)),
              !.pc = "close"]

\* an error thrown inside withBrowser's try block: the finally block runs next
Fail(rec, e) == [rec EXCEPT !.err = e, !.pc = "close"]

----------------------------------------------------------------------------
(* Navigation / login state machine: the synchronous code between awaits *)

\* "Unexpected redirect back to login" check, then the settle delay
RedirectCheck(rec) ==
  IF isLoginPage(rec.url) THEN Fail(rec, "unexpectedRedirect")
  ELSE [rec EXCEPT !.pc = "settle"]

\* faulty variant: a page still on the login path is answered by logging in again
PostLogin_RetryLogin(s, rec) ==
  IF isLoginPage(rec.url)
  THEN IF rec.loginClicks < 2 THEN [rec EXCEPT !.pc = "emailWait"]
       ELSE Fail(rec, "stillOnLogin")
  ELSE IF s \in {"fp", "fp1"}
       THEN IF ~isReportPage(rec.url) THEN [rec EXCEPT !.pc = "explicitGoto"]
            ELSE RedirectCheck(rec)
       ELSE [rec EXCEPT !.pc = "settle"]

\* faulty variant: the "Still on login page" check is missing
PostLogin_NoLoginCheck(s, rec) ==
  IF s \in {"fp", "fp1"}
  THEN IF ~isReportPage(rec.url) THEN [rec EXCEPT !.pc = "explicitGoto"]
       ELSE RedirectCheck(rec)
  ELSE [rec EXCEPT !.pc = "settle"]

\* the code after the login block: "Still on login page" check, then the
\* explicit navigation to the report when the page is not the report page
PostLogin(s, rec) ==
  IF isLoginPage(rec.url) THEN Fail(rec, "stillOnLogin")
  ELSE IF s \in {"fp", "fp1"}
       THEN IF ~isReportPage(rec.url) THEN [rec EXCEPT !.pc = "explicitGoto"]
            ELSE RedirectCheck(rec)
       ELSE [rec EXCEPT !.pc = "settle"]

\* the URL predicate the login click waits for
LeftLoginPath(u) == ~PathIncludesLogin(u)

\* the URL predicate waited for after login: off the login path and on the report
ReachedReport(u) == ~PathIncludesLogin(u) /\ HrefIncludesReport(u)

\* the tail of loginOnCurrentPage after the click's wait resolved
AfterLoginClick(s, rec) ==
  IF s = "fp" /\ HrefIncludesLogin(rec.url) THEN Fail(rec, "loginFailedStillOnLogin")
  ELSE [rec EXCEPT !.pc = "reportWait"]

\* the locator strategies of each service's export lookup, in order
ExportChain(s) ==
  CASE s = "fp"    -> <<"role", "textContains">>
    [] s = "sales" -> <<"textExact">>
    [] s = "fp1"   -> <<"role", "textExact">>
    [] s = "fp0"   -> <<"selText", "selButton", "selDiv">>

\* what is thrown when the chain is exhausted
ExportNotFoundError(s) ==
  CASE s = "fp"    -> "exportNotFound"
    [] s = "sales" -> "exportNotFound"
    [] s = "fp1"   -> "locatorTimeout"
    [] s = "fp0"   -> "exportNotFoundOnPage"

\* buffer.toString("base64")
Base64(bytes) ==
  CASE bytes = ""    -> ""
    [] bytes = "a,b" -> "YSxi"
    [] bytes = "x"   -> "eA=="

FileContents == {"", "a,b"}
SuggestedNames == {"first-purchase.csv", "export.csv"}
ReportedMimeTypes == {NONE, "", "text/csv"}

\* (typeof download.mimeType === "function" ? download.mimeType() : null) || default
MimeTypeOf(reported) == JsOr(reported, "application/octet-stream")

----------------------------------------------------------------------------
(* Initial states *)

\* a running server: app.listen has been called
InitCommon ==
  /\ svc \in Services
  /\ env \in Environments
  /\ listening = ListenPort(env)
  /\ browsers = [b \in BrowserIds |-> NoBrowser]
  /\ posts = <<>>

\* one request
Init ==
  /\ InitCommon
  /\ \E req \in ArrivingRequests :
       inbox = [r \in Reqs |-> IF r = 1 THEN req ELSE NoMessage]
  /\ rq = [r \in Reqs |-> NewHandler]

\* a configured deployment: a token and both credentials are set
ConfiguredEnv ==
  [SCRAPER_TOKEN |-> "tok", WALLA_USER |-> "e", WALLA_PASS |-> "e",
   PORT |-> NONE]

\* two valid export requests to src/server.js in flight at once, one asking
\* for a webhook
InitTwo ==
  /\ InitCommon
  /\ env = ConfiguredEnv
  /\ svc = "fp"
  /\ inbox = [r \in Reqs |->
               IF r = 1
               THEN Message("export", "tok", NONE, "2024-01-01", "2024-01-01",
                            NONE, NONE, "https://hook")
               ELSE Message("export", NONE, "tok", "2024-01-01", "2024-01-01",
                            "q", "q", NONE)]
  /\ rq = [r \in Reqs |-> NewHandler]

----------------------------------------------------------------------------
(* Actions.  Each takes the request it belongs to. *)

Update(r, rec) == rq' = [rq EXCEPT ![r] = rec]

At(r, label) == rq[r].pc = label

\* the request runs through the middleware chain up to the first await
Receive(r) ==
  /\ listening # NotListening
  /\ inbox[r] # NoMessage
  /\ At(r, "waiting")
  /\ Update(r, Dispatch(svc, env, inbox[r], [rq[r] EXCEPT !.route = inbox[r].route]))
  /\ inbox' = [inbox EXCEPT ![r] = NoMessage]
  /\ UNCHANGED <<svc, env, listening, browsers, posts>>

\* faulty variant: the browser is kept in a module-level variable and reused
\* while it is open
FreshBrowser_Shared ==
  IF \E b \in BrowserIds : browsers[b].state = "open"
  THEN CHOOSE b \in BrowserIds : browsers[b].state = "open"
  ELSE CHOOSE b \in BrowserIds :
         /\ browsers[b].state = "none"
         /\ \A c \in BrowserIds : c < b => browsers[c].state # "none"

\* the lowest-numbered browser slot not yet used
FreshBrowser == CHOOSE b \in BrowserIds :
                  /\ browsers[b].state = "none"
                  /\ \A c \in BrowserIds : c < b => browsers[c].state # "none"

\* withBrowser: chromium.launch resolves, or rejects before the try block
Launch(r) ==
  /\ At(r, "launch")
  /\ \E launched \in BOOLEAN :
       IF launched
       THEN /\ \E b \in BrowserIds : browsers[b].state = "none"
            /\ browsers' = [browsers EXCEPT ![FreshBrowser] =
                              [state |-> "open", closeCalls |-> 0, owner |-> r]]
            /\ Update(r, [rq[r] EXCEPT !.dpr = DeviceScaleFactor(rq[r].opts),
                                       !.launches = @ + 1,
                                       !.browser = FreshBrowser,
                                       !.pc = "newContext"])
       ELSE /\ Update(r, Send([rq[r] EXCEPT !.dpr = DeviceScaleFactor(rq[r].opts),
                                            !.launches = @ + 1,
                                            !.err = "launchFailed"],
                              ErrorResponse(svc, "launchFailed")))
            /\ UNCHANGED browsers
  /\ UNCHANGED <<svc, env, listening, inbox, posts>>

\* the awaited setup calls of withBrowser, in order
SetupOrder == <<"newContext", "addInitScript", "newPage", "setViewportSize">>

SetupIndex(label) == CHOOSE i \in 1..Len(SetupOrder) : SetupOrder[i] = label

AfterSetup(label) ==
  IF SetupIndex(label) < Len(SetupOrder) THEN SetupOrder[SetupIndex(label) + 1]
  ELSE "gotoLogin"

\* browser.newContext / context.addInitScript / context.newPage /
\* page.setViewportSize resolves or rejects
SetupStep(r) ==
  /\ \E i \in 1..Len(SetupOrder) : At(r, SetupOrder[i])
  /\ \E ok \in BOOLEAN :
       Update(r, IF ok THEN [rq[r] EXCEPT !.pc = AfterSetup(rq[r].pc)]
                 ELSE Fail(rq[r], "setupFailed"))
  /\ UNCHANGED <<svc, env, listening, inbox, browsers, posts>>

\* page.goto(loginUrl) and the isLoginPage test after it
GotoLogin(r) ==
  /\ At(r, "gotoLogin")
  /\ \/ Update(r, Fail(rq[r], "navigationFailed"))
     \/ \E u \in Urls :
          LET rec == [rq[r] EXCEPT !.url = u] IN
          Update(r, IF svc = "fp0" \/ isLoginPage(u)
                    THEN [rec EXCEPT !.pc = "emailWait"]
                    ELSE PostLogin(svc, rec))
  /\ UNCHANGED <<svc, env, listening, inbox, browsers, posts>>

\* email field: waitFor visible / waitForSelector
EmailWait(r) ==
  /\ At(r, "emailWait")
  /\ \E visible \in BOOLEAN :
       Update(r, IF visible THEN [rq[r] EXCEPT !.found = @ \cup {"email"},
                                              !.pc = "passWait"]
                 ELSE Fail(rq[r], "emailNotFound"))
  /\ UNCHANGED <<svc, env, listening, inbox, browsers, posts>>

\* faulty variant: a password field that never shows is logged and passed over
PassWait_Unchecked(r) ==
  /\ At(r, "passWait")
  /\ \E visible \in BOOLEAN :
       Update(r, IF visible THEN [rq[r] EXCEPT !.found = @ \cup {"password"},
                                              !.pc = "fillEmail"]
                 ELSE [rq[r] EXCEPT !.pc = "fillEmail"])
  /\ UNCHANGED <<svc, env, listening, inbox, browsers, posts>>

\* password field: waitFor visible / waitForSelector
PassWait(r) ==
  /\ At(r, "passWait")
  /\ \E visible \in BOOLEAN :
       Update(r, IF visible THEN [rq[r] EXCEPT !.found = @ \cup {"password"},
                                              !.pc = "fillEmail"]
                 ELSE Fail(rq[r], "passwordNotFound"))
  /\ UNCHANGED <<svc, env, listening, inbox, browsers, posts>>

\* emailInput.fill(username)
FillEmail(r) ==
  /\ At(r, "fillEmail")
  /\ \E ok \in BOOLEAN :
       Update(r, IF ok THEN [rq[r] EXCEPT !.typed = @ \cup {"email"},
                                         !.emailTyped = rq[r].username,
                                         !.pc = "fillPass"]
                 ELSE Fail(rq[r], "fillFailed"))
  /\ UNCHANGED <<svc, env, listening, inbox, browsers, posts>>

\* passwordInput.fill(password)
FillPass(r) ==
  /\ At(r, "fillPass")
  /\ \E ok \in BOOLEAN :
       Update(r, IF ok THEN [rq[r] EXCEPT !.typed = @ \cup {"password"},
                                         !.passTyped = rq[r].password,
                                         !.pc = "buttonWait"]
                 ELSE Fail(rq[r], "fillFailed"))
  /\ UNCHANGED <<svc, env, listening, inbox, browsers, posts>>

\* the submit control: waitFor visible, or (fp0) the page.$ chain
ButtonWait(r) ==
  /\ At(r, "buttonWait")
  /\ \E found \in BOOLEAN :
       Update(r, IF found THEN [rq[r] EXCEPT !.pc = "loginClick"]
                 ELSE Fail(rq[r], "loginButtonNotFound"))
  /\ UNCHANGED <<svc, env, listening, inbox, browsers, posts>>

\* the page is now at u; leftLogin records that, after the login form was
\* submitted, the page was seen off the login path
Landed(rec, u) ==
  [rec EXCEPT !.url = u,
              !.leftLogin = @ \/ (rec.submitted /\ ~PathIncludesLogin(u))]

\* Promise.all([page.waitForURL(off the login path), loginButton.click()]);
\* fp0 waits for the network-idle load state instead of a URL
LoginClick(r) ==
  /\ At(r, "loginClick")
  /\ LET clicked == [rq[r] EXCEPT !.loginClicks = @ + 1] IN
     \/ Update(r, Fail(clicked, "loginClickFailed"))
     \/ /\ svc # "fp0"
        /\ \E u \in Urls :
             LET rec == Landed([clicked EXCEPT !.submitted = TRUE], u) IN
             Update(r, IF LeftLoginPath(u) THEN AfterLoginClick(svc, rec)
                       ELSE Fail(rec, "loginTimeout"))
     \/ /\ svc = "fp0"
        /\ \E u \in Urls, idle \in BOOLEAN :
             LET rec == Landed([clicked EXCEPT !.submitted = TRUE], u) IN
             Update(r, IF idle THEN [rec EXCEPT !.pc = "explicitGoto"]
                       ELSE Fail(rec, "loginLoadStateTimeout"))
  /\ UNCHANGED <<svc, env, listening, inbox, browsers, posts>>

\* page.waitForURL(off login and on the report, 30 s); its timeout is caught
\* and answered by navigating to the report URL
ReportWait(r) ==
  /\ At(r, "reportWait")
  /\ \E u \in Urls :
       LET rec == Landed(rq[r], u) IN
       Update(r, IF ReachedReport(u) THEN PostLogin(svc, rec)
                 ELSE [rec EXCEPT !.pc = "fallbackGoto"])
  /\ UNCHANGED <<svc, env, listening, inbox, browsers, posts>>

\* page.goto(reportUrlStr) in the catch block of the wait above
FallbackGoto(r) ==
  /\ At(r, "fallbackGoto")
  /\ \/ Update(r, Fail(rq[r], "navigationFailed"))
     \/ \E u \in Urls :
          LET rec == Landed(rq[r], u) IN
          Update(r, IF svc = "fp" THEN [rec EXCEPT !.pc = "fallbackIdle"]
                    ELSE PostLogin(svc, rec))
  /\ UNCHANGED <<svc, env, listening, inbox, browsers, posts>>

\* fp: waitForLoadState("networkidle") inside try/catch: a timeout is logged
FallbackIdle(r) ==
  /\ At(r, "fallbackIdle")
  /\ \E idle \in BOOLEAN : Update(r, PostLogin(svc, rq[r]))
  /\ UNCHANGED <<svc, env, listening, inbox, browsers, posts>>

\* page.goto(reportUrlStr): after login when the page is not the report (fp,
\* fp1), always (fp0)
ExplicitGoto(r) ==
  /\ At(r, "explicitGoto")
  /\ \/ Update(r, Fail(rq[r], "navigationFailed"))
     \/ \E u \in Urls :
          LET rec == Landed(rq[r], u) IN
          Update(r, CASE svc = "fp"  -> [rec EXCEPT !.pc = "explicitIdle"]
                      [] svc = "fp0" -> [rec EXCEPT !.pc = "settle"]
                      [] OTHER       -> RedirectCheck(rec))
  /\ UNCHANGED <<svc, env, listening, inbox, browsers, posts>>

\* fp: waitForLoadState("networkidle") outside any try: a timeout throws
ExplicitIdle(r) ==
  /\ At(r, "explicitIdle")
  /\ \E idle \in BOOLEAN :
       Update(r, IF idle THEN RedirectCheck(rq[r])
                 ELSE Fail(rq[r], "loadStateTimeout"))
  /\ UNCHANGED <<svc, env, listening, inbox, browsers, posts>>

\* page.waitForTimeout(3000)
Settle(r) ==
  /\ At(r, "settle")
  /\ Update(r, [rq[r] EXCEPT !.pc = IF svc = "fp" THEN "headerWait" ELSE "locate"])
  /\ UNCHANGED <<svc, env, listening, inbox, browsers, posts>>

\* fp: wait for the "client id" header, any failure swallowed
HeaderWait(r) ==
  /\ At(r, "headerWait")
  /\ \E visible \in BOOLEAN : Update(r, [rq[r] EXCEPT !.pc = "locate"])
  /\ UNCHANGED <<svc, env, listening, inbox, browsers, posts>>

\* one strategy of the export lookup: the control is visible, or the wait
\* times out (fp0: the query returns null) and the next strategy follows
Locate(r) ==
  /\ At(r, "locate")
  /\ LET strategy == ExportChain(svc)[Len(rq[r].tried) + 1] IN
     \E visible \in BOOLEAN :
       Update(r,
         IF visible
         THEN [rq[r] EXCEPT !.located = strategy, !.pc = "exportClick"]
         ELSE LET rec == [rq[r] EXCEPT !.tried = Append(@, strategy)] IN
              IF Len(rec.tried) < Len(ExportChain(svc)) THEN rec
              ELSE Fail(rec, ExportNotFoundError(svc)))
  /\ UNCHANGED <<svc, env, listening, inbox, browsers, posts>>

\* faulty variant: the click is made and awaited before the wait for the download
\* event is set up
CaptureSteps_ClickFirst == <<"click", "arm">>

\* Promise.all([page.waitForEvent("download"), exportLocator.click({force})]):
\* the array's elements are evaluated left to right, so the waiter is
\* registered first and the click is sent second
CaptureSteps == <<"arm", "click">>

\* the site raises the download event: a registered waiter captures it, with
\* no waiter it is lost
RaiseDownload(rec) == [rec EXCEPT !.fired = TRUE, !.captured = rec.armed]

RECURSIVE RunCapture(_, _, _)
\* the calls of CaptureSteps from the i-th on; the site may answer the click
\* with the download at once
RunCapture(rec, i, immediate) ==
  IF i > Len(CaptureSteps) THEN [rec EXCEPT !.pc = "download"]
  ELSE CASE CaptureSteps[i] = "arm" ->
              RunCapture([rec EXCEPT !.armed = TRUE], i + 1, immediate)
         [] CaptureSteps[i] = "click" ->
              LET clicked == [rec EXCEPT !.exportClicks = @ + 1] IN
              RunCapture(IF immediate THEN RaiseDownload(clicked) ELSE clicked,
                         i + 1, immediate)

\* the synchronous start of the download capture: both calls are made, the
\* handler then awaits the two promises together
ExportClick(r) ==
  /\ At(r, "exportClick")
  /\ \E immediate \in BOOLEAN : Update(r, RunCapture(rq[r], 1, immediate))
  /\ UNCHANGED <<svc, env, listening, inbox, browsers, posts>>

\* the site raises the download event some time after the click
DownloadEvent(r) ==
  /\ At(r, "download")
  /\ ~rq[r].fired
  /\ Update(r, RaiseDownload(rq[r]))
  /\ UNCHANGED <<svc, env, listening, inbox, browsers, posts>>

\* the awaited Promise.all settles: the click rejects, the wait for the event
\* times out with no event captured, or both resolve; then
\* suggestedFilename() and the mime type
Download(r) ==
  /\ At(r, "download")
  /\ \/ Update(r, Fail(rq[r], "exportClickFailed"))
     \/ /\ ~rq[r].captured
        /\ Update(r, Fail(rq[r], "downloadTimeout"))
     \/ /\ rq[r].captured
        /\ \E name \in SuggestedNames, mime \in ReportedMimeTypes :
             Update(r, [rq[r] EXCEPT !.downloads = @ + 1,
                                     !.fileName = name,
                                     !.reported = mime,
                                     !.mimeType = MimeTypeOf(mime),
                                     !.pc = "createReadStream"])
  /\ UNCHANGED <<svc, env, listening, inbox, browsers, posts>>

\* download.createReadStream(): a stream, null, or a rejection
CreateReadStream(r) ==
  /\ At(r, "createReadStream")
  /\ \/ Update(r, [rq[r] EXCEPT !.streamOpen = TRUE, !.pc = "streamToBuffer"])
     \/ Update(r, Fail(rq[r], "noDownloadStream"))
     \/ Update(r, Fail(rq[r], "downloadFailed"))
  /\ UNCHANGED <<svc, env, listening, inbox, browsers, posts>>

\* faulty variant: an "error" event resolves with the chunks read so far
StreamToBuffer_PartialOnError(r) ==
  /\ At(r, "streamToBuffer")
  /\ \E bytes \in FileContents, event \in {"end", "error"} :
       Update(r, [rq[r] EXCEPT
                    !.streamEvent = event,
                    !.result = [fileName |-> rq[r].fileName,
                                mimeType |-> rq[r].mimeType,
                                fileBase64 |-> Base64(bytes)],
                    !.returned = TRUE,
                    !.pc = "close"])
  /\ UNCHANGED <<svc, env, listening, inbox, browsers, posts>>

\* streamToBuffer: "end" resolves with the bytes, "error" rejects; the work
\* function then returns {fileName, mimeType, fileBase64}
StreamToBuffer(r) ==
  /\ At(r, "streamToBuffer")
  /\ \/ Update(r, Fail([rq[r] EXCEPT !.streamEvent = "error"], "streamError"))
     \/ \E bytes \in FileContents :
          Update(r, [rq[r] EXCEPT
                       !.streamEvent = "end",
                       !.result = [fileName |-> rq[r].fileName,
                                   mimeType |-> rq[r].mimeType,
                                   fileBase64 |-> Base64(bytes)],
                       !.returned = TRUE,
                       !.pc = "close"])
  /\ UNCHANGED <<svc, env, listening, inbox, browsers, posts>>

\* the body of the webhook POST
WebhookPayload(r, rec) ==
  [req |-> r, url |-> rec.webhook, fileName |-> rec.result.fileName,
   mimeType |-> rec.result.mimeType, fileBase64 |-> rec.result.fileBase64]

\* faulty variant: the webhook is posted before the outcome of withBrowser is looked at
AfterWithBrowser_WebhookFirst(s, rec) ==
  IF Truthy(rec.webhook) THEN [rec EXCEPT !.pc = "webhook"]
  ELSE IF rec.err # NONE THEN Send(rec, ErrorResponse(s, rec.err))
  ELSE Send(rec, SuccessResponse(rec.result, rec.webhookResult))

\* the handler after withBrowser settled: the catch block on an error, else
\* the webhook POST when a webhook was asked for, else the success response
AfterWithBrowser(s, rec) ==
  IF rec.err # NONE THEN Send(rec, ErrorResponse(s, rec.err))
  ELSE IF Truthy(rec.webhook) THEN [rec EXCEPT !.pc = "webhook"]
  ELSE Send(rec, SuccessResponse(rec.result, rec.webhookResult))

\* faulty variant: a rejection of browser.close() is caught and dropped
Close_ErrorDropped(r) ==
  /\ At(r, "close")
  /\ \E ok \in BOOLEAN :
       LET b == rq[r].browser
           after == AfterWithBrowser(svc, rq[r])
       IN  /\ browsers' = [browsers EXCEPT
                             ![b].closeCalls = @ + 1,
                             ![b].state = IF ok THEN "closed" ELSE "closeFailed"]
           /\ Update(r, after)
           /\ posts' = IF after.pc = "webhook"
                       THEN Append(posts, WebhookPayload(r, after))
                       ELSE posts
  /\ UNCHANGED <<svc, env, listening, inbox>>

\* withBrowser's finally block: browser.close(); a rejection of close
\* replaces the work function's outcome
Close(r) ==
  /\ At(r, "close")
  /\ \E ok \in BOOLEAN :
       LET b == rq[r].browser
           rec == IF ok THEN rq[r]
                  ELSE [rq[r] EXCEPT !.err = "closeFailed", !.returned = FALSE]
           after == AfterWithBrowser(svc, rec)
       IN  /\ browsers' = [browsers EXCEPT
                             ![b].closeCalls = @ + 1,
                             ![b].state = IF ok THEN "closed" ELSE "closeFailed"]
           /\ Update(r, after)
           /\ posts' = IF after.pc = "webhook"
                       THEN Append(posts, WebhookPayload(r, after))
                       ELSE posts
  /\ UNCHANGED <<svc, env, listening, inbox>>

WebhookStatuses == {200, 500}

\* faulty variant: the fetch is not wrapped in try/catch, its rejection reaches the
\* handler's catch block
WebhookSettle_Propagates(r) ==
  /\ At(r, "webhook")
  /\ \/ \E st \in WebhookStatuses :
          LET wr == [kind |-> "object", ok |-> IF st = 200 THEN "true" ELSE "false",
                     status |-> st, error |-> NONE] IN
          Update(r, Send([rq[r] EXCEPT !.webhookResult = wr],
                         SuccessResponse(rq[r].result, wr)))
     \/ Update(r, Send([rq[r] EXCEPT !.err = "fetch failed"],
                       ErrorResponse(svc, "fetch failed")))
  /\ UNCHANGED <<svc, env, listening, inbox, browsers, posts>>

\* the webhook fetch settles: a response (ok iff 2xx) or a rejection; then
\* res.json with the result and webhookResult
WebhookSettle(r) ==
  /\ At(r, "webhook")
  /\ \E wr \in
         { [kind |-> "object", ok |-> IF st = 200 THEN "true" ELSE "false",
            status |-> st, error |-> NONE] : st \in WebhookStatuses }
         \cup { [kind |-> "object", ok |-> "false", status |-> 0,
                 error |-> "fetch failed"] } :
       Update(r, Send([rq[r] EXCEPT !.webhookResult = wr],
                      SuccessResponse(rq[r].result, wr)))
  /\ UNCHANGED <<svc, env, listening, inbox, browsers, posts>>

Step(r) ==
  \/ Receive(r)
  \/ Launch(r)
  \/ SetupStep(r)
  \/ GotoLogin(r)
  \/ EmailWait(r)
  \/ PassWait(r)
  \/ FillEmail(r)
  \/ FillPass(r)
  \/ ButtonWait(r)
  \/ LoginClick(r)
  \/ ReportWait(r)
  \/ FallbackGoto(r)
  \/ FallbackIdle(r)
  \/ ExplicitGoto(r)
  \/ ExplicitIdle(r)
  \/ Settle(r)
  \/ HeaderWait(r)
  \/ Locate(r)
  \/ ExportClick(r)
  \/ DownloadEvent(r)
  \/ Download(r)
  \/ CreateReadStream(r)
  \/ StreamToBuffer(r)
  \/ Close(r)
  \/ WebhookSettle(r)

Next == \E r \in Reqs : Step(r)

Spec == Init /\ [][Next]_vars

\* the page and download data followed when two requests run at once: the
\* site answers with the login page, the report or one other page, and the
\* download is one file
PlainData(rec) ==
  /\ rec.url.q = "none"
  /\ rec.fileName \in {NONE, "export.csv"}
  /\ rec.reported = NONE
  /\ rec.result.fileBase64 \in {NONE, Base64("a,b")}

\* action A with the data of every request kept plain
Plain(A) == A /\ \A r \in Reqs : PlainData(rq'[r])

\* two concurrent requests: the event loop runs the continuations of the two
\* handlers in any order
NextTwo ==
  \E r \in Reqs :
    \/ Plain(Receive(r))
    \/ Plain(Launch(r))
    \/ Plain(SetupStep(r))
    \/ Plain(GotoLogin(r))
    \/ Plain(EmailWait(r))
    \/ Plain(PassWait(r))
    \/ Plain(FillEmail(r))
    \/ Plain(FillPass(r))
    \/ Plain(ButtonWait(r))
    \/ Plain(LoginClick(r))
    \/ Plain(ReportWait(r))
    \/ Plain(FallbackGoto(r))
    \/ Plain(FallbackIdle(r))
    \/ Plain(ExplicitGoto(r))
    \/ Plain(ExplicitIdle(r))
    \/ Plain(Settle(r))
    \/ Plain(HeaderWait(r))
    \/ Plain(Locate(r))
    \/ Plain(ExportClick(r))
    \/ Plain(DownloadEvent(r))
    \/ Plain(Download(r))
    \/ Plain(CreateReadStream(r))
    \/ Plain(StreamToBuffer(r))
    \/ Plain(Close(r))
    \/ Plain(WebhookSettle(r))

SpecTwo == InitTwo /\ [][NextTwo]_vars

\* the module has been evaluated down to its last statement with any PORT
\* setting; one request is on its way
InitStart ==
  /\ svc \in Services
  /\ env \in {[ConfiguredEnv EXCEPT !.PORT = p] : p \in PortValues}
  /\ listening = NotListening
  /\ browsers = [b \in BrowserIds |-> NoBrowser]
  /\ posts = <<>>
  /\ inbox = [r \in Reqs |->
               IF r = 1
               THEN Message("export", "tok", NONE, "2024-01-01", "2024-01-01",
                            NONE, NONE, "https://hook")
               ELSE NoMessage]
  /\ rq = [r \in Reqs |-> NewHandler]

\* const PORT = process.env.PORT || 8080; app.listen(PORT, ...)
Listen ==
  /\ listening = NotListening
  /\ listening' = ListenPort(env)
  /\ UNCHANGED <<svc, env, inbox, rq, browsers, posts>>

NextStart == Listen \/ NextTwo

\* the process from its start: it listens, then serves a request
SpecStart == InitStart /\ [][NextStart]_vars

\* the configurations the process environment can be changed to
EnvChoices ==
  [SCRAPER_TOKEN : {"tok", "new"}, WALLA_USER : {"e", "e2"}, WALLA_PASS : {"e"},
   PORT : {NONE}]

\* process.env is assigned new values while the server runs
Reconfigure ==
  /\ \E e \in EnvChoices : e # env /\ env' = e
  /\ UNCHANGED <<svc, listening, inbox, rq, browsers, posts>>

\* the client sends its second request once the first has been answered
NextRequest ==
  /\ rq[1].pc = "done"
  /\ rq[2].pc = "waiting" /\ inbox[2] = NoMessage
  /\ inbox' = [inbox EXCEPT ![2] =
                 Message("export", NONE, "tok", "2024-01-01", "2024-01-01",
                         "q", "q", NONE)]
  /\ UNCHANGED <<svc, env, listening, rq, browsers, posts>>

\* a configured deployment of src/server.js and one request on its way
InitEnv ==
  /\ InitCommon
  /\ env = ConfiguredEnv
  /\ svc = "fp"
  /\ inbox = [r \in Reqs |->
               IF r = 1
               THEN Message("export", "tok", NONE, "2024-01-01", "2024-01-01",
                            NONE, NONE, "https://hook")
               ELSE NoMessage]
  /\ rq = [r \in Reqs |-> NewHandler]

NextEnv == Reconfigure \/ NextRequest \/ NextTwo

\* two requests, one after the other, with the environment changing at any time
SpecEnv == InitEnv /\ [][NextEnv]_vars

\* the awaits that no timeout bounds: download.createReadStream() settles
\* when the site has finished sending the file, streamToBuffer when the
\* stream emits "end" or "error"
Untimed == {"createReadStream", "streamToBuffer"}

\* a step of request r that is synchronous, local to the server and its
\* browser, or bounded by a timeout of the call, of the context or of the
\* runtime
TimedStep(r) == rq[r].pc \notin Untimed /\ Plain(Step(r))

\* the process starts and timers fire: every step but the untimed awaits is
\* taken in the end
Timers == WF_vars(Listen) /\ \A r \in Reqs : WF_vars(TimedStep(r))

\* the process from its start, with its timers
SpecLive == InitStart /\ [][NextStart]_vars /\ Timers

\* the hints followed, in tenths: below, at and above each end of [1, 4]
HintValues == {-30, -1, 0, 5, 10, 15, 20, 40, 41, 70}

Hints ==
  {NoHint, TextHint} \cup {NumberHint(n) : n \in HintValues}
    \cup {NumericStringHint(n) : n \in HintValues}

\* a caller of withBrowser that passes a device-scale-factor hint: one valid
\* request on its way, to be served with that hint
InitDpr ==
  /\ InitCommon
  /\ env = ConfiguredEnv
  /\ inbox = [r \in Reqs |->
               IF r = 1
               THEN Message("export", "tok", NONE, "2024-01-01", "2024-01-01",
                            NONE, NONE, "https://hook")
               ELSE NoMessage]
  /\ \E h \in Hints :
       rq = [r \in Reqs |-> [NewHandler EXCEPT !.opts = [dpr |-> h]]]

\* withBrowser called with any hint
SpecDpr == InitDpr /\ [][NextTwo]_vars

----------------------------------------------------------------------------
(* Properties of the request gateway *)

\* the response sent for request r (only used where one was sent)
Answer(r) == rq[r].resp[1]

Answered(r) == Len(rq[r].resp) > 0

\* the step hands request r to the server
Received(r) == inbox[r] # NoMessage /\ inbox'[r] = NoMessage

IsError(response, st, code) ==
  /\ response.status = st
  /\ response.ok = "false"
  /\ response.error = code

\* C1: an export request that passes the auth gate with 'start' or 'end'
\* missing or empty is answered 400 missing_params; otherwise, when the
\* username or the password cannot be resolved from the environment or the
\* query, it is answered 400 missing_credentials; no browser is launched for a
\* request answered 400, neither before, with, nor after the answer.
C1_FailFast ==
  /\ [][\A r \in Reqs :
          (Received(r) /\ inbox[r].route = "export" /\ rq'[r].admitted) =>
            LET m == inbox[r]
                noParams == m.start \in {NONE, ""} \/ m.end \in {NONE, ""}
                noUser == env.WALLA_USER \in {NONE, ""} /\ m.qUser \in {NONE, ""}
                noPass == env.WALLA_PASS \in {NONE, ""} /\ m.qPass \in {NONE, ""}
            IN  /\ noParams =>
                     /\ rq'[r].resp = <<JsonError(400, "false", "missing_params")>>
                     /\ rq'[r].launches = 0
                /\ (~noParams /\ (noUser \/ noPass)) =>
                     /\ rq'[r].resp = <<JsonError(400, "false", "missing_credentials")>>
                     /\ rq'[r].launches = 0
                /\ (~noParams /\ ~noUser /\ ~noPass) => rq'[r].resp = <<>>]_vars
  /\ [](\A r \in Reqs :
          (Answered(r) /\ Answer(r).status = 400) =>
            /\ rq[r].launches = 0
            /\ rq[r].browser = 0
            /\ rq[r].pc = "done")
  /\ [][\A r \in Reqs :
          (Answered(r) /\ Answer(r).status = 400) => rq'[r] = rq[r]]_vars

\* C1 witness: an admitted export request with dates but no resolvable
\* password was answered 400 missing_credentials with no browser launched
C1_Witness ==
  \E r \in Reqs :
    /\ rq[r].admitted
    /\ Truthy(rq[r].start) /\ Truthy(rq[r].end)
    /\ env.SCRAPER_TOKEN = "tok"
    /\ env.WALLA_USER = "e" /\ env.WALLA_PASS = ""
    /\ Answered(r) /\ IsError(Answer(r), 400, "missing_credentials")
    /\ rq[r].launches = 0

\* C3 (as claimed): with a token configured, an export request that carries
\* neither an x-api-key header nor a key parameter is answered 401 with body
\* {ok:false, error:"unauthorized"} and no browser is launched for it.
C3_Unauthorized ==
  [][\A r \in Reqs :
       (Received(r) /\ inbox[r].route = "export" /\ Truthy(env.SCRAPER_TOKEN)
          /\ inbox[r].hdrKey = NONE /\ inbox[r].qKey = NONE) =>
         /\ rq'[r].resp = <<JsonError(401, "false", "unauthorized")>>
         /\ rq'[r].launches = 0
         /\ rq'[r].pc = "done"]_vars

\* C4 (as claimed): with a token configured, a request to a route other than
\* /healthz is admitted iff its x-api-key header equals the token or its key
\* parameter equals the token; with no token configured every request is
\* admitted and none is answered 401.
C4_AdmittedIff ==
  [][\A r \in Reqs :
       (Received(r) /\ inbox[r].route # "healthz") =>
         LET m == inbox[r]
             token == env.SCRAPER_TOKEN
             is401 == Len(rq'[r].resp) > 0 /\ rq'[r].resp[1].status = 401
         IN  IF token \in {NONE, ""}
             THEN rq'[r].admitted /\ ~is401
             ELSE /\ rq'[r].admitted <=> (m.hdrKey = token \/ m.qKey = token)
                  /\ is401 <=> ~rq'[r].admitted]_vars

\* C5: a request to /healthz is answered "ok" with status 200 whatever the
\* token configuration and the keys it carries; it is never answered 401 and
\* no browser is launched for it.
C5_Healthz ==
  /\ [][\A r \in Reqs :
          (Received(r) /\ inbox[r].route = "healthz") =>
            /\ rq'[r].resp = <<TextResponse("ok")>>
            /\ rq'[r].pc = "done"]_vars
  /\ [](\A r \in Reqs :
          rq[r].route = "healthz" =>
            /\ rq[r].launches = 0 /\ rq[r].browser = 0
            /\ \A i \in 1..Len(rq[r].resp) : rq[r].resp[i].status # 401)
  /\ [][\A r \in Reqs : rq[r].route = "healthz" => rq'[r] = rq[r]]_vars

\* C5 witness: /healthz was answered "ok" on a server with a token configured,
\* without the request having gone through the auth gate
C5_Witness ==
  \E r \in Reqs :
    /\ rq[r].route = "healthz"
    /\ env.SCRAPER_TOKEN = "tok"
    /\ ~rq[r].admitted
    /\ rq[r].resp = <<TextResponse("ok")>>

----------------------------------------------------------------------------
(* Properties of the session and of the export flow *)

Launched(r) == rq[r].browser # 0

CloseCalls(r) == browsers[rq[r].browser].closeCalls

\* withBrowser has been left: the handler is past its await of withBrowser
LeftWithBrowser(r) == rq[r].pc \in {"webhook", "done"}

PostsOf(r) == SelectSeq(posts, LAMBDA p : p.req = r)

\* C2: the browser of a launched session is closed exactly once on every
\* exit path of withBrowser: never before the work function has returned or
\* thrown, once when withBrowser is left, and never a second time.
C2_ClosedExactlyOnce ==
  \A r \in Reqs :
    Launched(r) =>
      /\ browsers[rq[r].browser].owner = r
      /\ CloseCalls(r) = IF LeftWithBrowser(r) THEN 1 ELSE 0

\* C2 witness: a session whose setup failed partway was closed once and the
\* request answered
C2_Witness ==
  \E r \in Reqs :
    /\ Launched(r)
    /\ rq[r].err = "setupFailed"
    /\ rq[r].pc = "done"
    /\ CloseCalls(r) = 1

\* C6: when the webhook POST of a successful export throws or returns a
\* non-success status, the response is still 200 ok:true with the file name,
\* mime type and base64 contents of the export, as without a webhook; the
\* failure shows only in webhookResult: ok:false with the status or the error.
C6_WebhookFailureKeepsSuccess ==
  [][\A r \in Reqs :
       (rq[r].pc = "webhook" /\ rq'[r].pc # "webhook"
          /\ rq'[r].webhookResult.ok # "true") =>
         LET wr == rq'[r].webhookResult IN
         /\ rq'[r].resp =
              <<[SuccessResponse(rq[r].result, NullWebhookResult)
                   EXCEPT !.webhookResult = wr]>>
         /\ rq'[r].resp[1].status = 200 /\ rq'[r].resp[1].ok = "true"
         /\ rq'[r].resp[1].fileBase64 = rq[r].result.fileBase64
         /\ wr.kind = "object" /\ wr.ok = "false"
         /\ (wr.status # 0 /\ wr.status # 200) \/ wr.error # NONE
         /\ rq'[r].err = NONE]_vars

\* C6 witness: the webhook fetch threw and the request was answered ok:true
C6_Witness ==
  \E r \in Reqs :
    /\ rq[r].pc = "done"
    /\ rq[r].webhookResult.error = "fetch failed"
    /\ Answered(r) /\ Answer(r).ok = "true" /\ Answer(r).status = 200
    /\ Answer(r).webhookResult.ok = "false"

\* the parts of C7 that do not depend on how an absent webhook is told
C7_Common(r) ==
  /\ Len(PostsOf(r)) <= 1
  /\ Len(PostsOf(r)) = 1 =>
       /\ rq[r].returned /\ rq[r].err = NONE
       /\ Launched(r) /\ CloseCalls(r) = 1
       /\ PostsOf(r)[1].fileName = rq[r].result.fileName
       /\ PostsOf(r)[1].mimeType = rq[r].result.mimeType
       /\ PostsOf(r)[1].fileBase64 = rq[r].result.fileBase64
  /\ rq[r].pc = "webhook" => (Len(PostsOf(r)) = 1 /\ ~Answered(r))
  /\ Answered(r) =>
       IF Answer(r).ok = "true"
       THEN /\ Len(PostsOf(r)) = 1 =>
                 /\ PostsOf(r)[1].fileName = Answer(r).fileName
                 /\ PostsOf(r)[1].mimeType = Answer(r).mimeType
                 /\ PostsOf(r)[1].fileBase64 = Answer(r).fileBase64
            /\ Answer(r).webhookResult.kind = "null" <=> Len(PostsOf(r)) = 0
       ELSE Len(PostsOf(r)) = 0

\* C7 (as claimed): the webhook POST is issued at most once and only after
\* the export succeeded, never for a request answered 400, 401, 500 or
\* no_export_button, with the response's file; the response follows the
\* POST; and webhookResult is null exactly when no 'webhook' parameter was
\* given.
C7_Original ==
  \A r \in Reqs :
    /\ C7_Common(r)
    /\ (Answered(r) /\ Answer(r).ok = "true") =>
         (Answer(r).webhookResult.kind = "null" <=> rq[r].webhook = NONE)

\* C7 (amended): as above, but webhookResult is null exactly when the
\* 'webhook' parameter is absent or empty.
C7_Amended ==
  \A r \in Reqs :
    /\ C7_Common(r)
    /\ (Answered(r) /\ Answer(r).ok = "true") =>
         (Answer(r).webhookResult.kind = "null" <=> rq[r].webhook \in {NONE, ""})

\* C7 witness: a successful request with a webhook was answered after its one
\* POST settled
C7_Witness ==
  \E r \in Reqs :
    /\ Len(PostsOf(r)) = 1
    /\ Answered(r) /\ Answer(r).ok = "true"
    /\ Answer(r).webhookResult.kind = "object"
    /\ PostsOf(r)[1].fileBase64 = Answer(r).fileBase64

\* the lookup of the export control has begun, or the control was clicked
ExportTouched(r) ==
  rq[r].tried # <<>> \/ rq[r].located # NONE \/ rq[r].exportClicks > 0

\* the browser of request r was closed and the close succeeded
ClosedCleanly(r) ==
  /\ Launched(r)
  /\ browsers[rq[r].browser].state = "closed"
  /\ CloseCalls(r) = 1

\* after the login form was submitted the page has stayed on the login path
StuckOnLogin(r) == rq[r].submitted /\ ~rq[r].leftLogin

\* the errors of the wait that follows the login click timing out
LoginTimeoutErrors == {"loginTimeout", "loginLoadStateTimeout"}

\* C8 (as claimed): a request during which the site never left the login path
\* after the login form was submitted ends without the export control having
\* been looked up or clicked, its browser closed, with a failure response
\* that carries the login wait's timeout.
C8_LoginTimeout ==
  \A r \in Reqs :
    (rq[r].pc = "done" /\ StuckOnLogin(r)) =>
      /\ ~ExportTouched(r)
      /\ Launched(r) /\ CloseCalls(r) = 1
      /\ Len(rq[r].resp) = 1 /\ Answer(r).ok = "false"
      /\ ClosedCleanly(r) =>
           /\ rq[r].err \in LoginTimeoutErrors
           /\ Answer(r) = JsonError(500, "false", "export_failed")

\* the export lookup of request r ran out of strategies
ChainExhausted(r) ==
  /\ rq[r].located = NONE
  /\ rq[r].tried = ExportChain(svc)

\* C9 (as claimed): when the report page never shows an export control, the
\* request ends only after every strategy of the service's chain has failed,
\* with an error code other than the generic export_failed of that service.
C9_DistinctNoDataOutcome ==
  \A r \in Reqs :
    /\ rq[r].err \in {"exportNotFound", "exportNotFoundOnPage", "locatorTimeout"}
         => ChainExhausted(r)
    /\ (ChainExhausted(r) /\ rq[r].pc = "done" /\ ClosedCleanly(r)) =>
         /\ Len(rq[r].resp) = 1
         /\ Answer(r).ok = "false"
         /\ Answer(r).error # "export_failed"

\* the browser-side record of request r: all that a page operation changes
PageRecord(rec) ==
  <<rec.launches, rec.browser, rec.url, rec.typed, rec.loginClicks,
    rec.submitted, rec.tried, rec.located, rec.exportClicks, rec.downloads,
    rec.streamOpen, rec.result>>

\* C10: a request is a single pass: the browser is launched at most once, the
\* login form submitted at most once and the export control clicked at most
\* once; once a stage has failed no later stage runs: the only steps left are
\* the release of the session and the failure response.
C10_SinglePass ==
  /\ [](\A r \in Reqs :
          /\ rq[r].launches <= 1
          /\ rq[r].loginClicks <= 1
          /\ rq[r].exportClicks <= 1
          /\ rq[r].err # NONE =>
               /\ rq[r].pc \in {"close", "done"}
               /\ ~rq[r].returned
               /\ Len(PostsOf(r)) = 0
               /\ rq[r].pc = "done" =>
                    /\ Len(rq[r].resp) = 1
                    /\ Answer(r).ok = "false"
                    /\ Launched(r) => CloseCalls(r) = 1)
  /\ [][\A r \in Reqs :
          rq[r].err # NONE =>
            /\ PageRecord(rq'[r]) = PageRecord(rq[r])
            /\ rq'[r].err # NONE]_vars

\* C10 witness: the download never arrived after the one export click; the
\* session was released and the request answered with a failure
C10_Witness ==
  \E r \in Reqs :
    /\ rq[r].err = "downloadTimeout"
    /\ rq[r].launches = 1 /\ rq[r].loginClicks = 1 /\ rq[r].exportClicks = 1
    /\ rq[r].pc = "done"
    /\ CloseCalls(r) = 1
    /\ Answered(r) /\ Answer(r).ok = "false"

----------------------------------------------------------------------------
(* Properties of the success response and of the credentials *)

\* the response of request r is the success response
Succeeded(r) == Answered(r) /\ Answer(r).ok = "true"

\* every login check of the service was passed: a submitted login left the
\* login path and the page was off it when the lookup began (the earliest
\* variant makes no login check)
LoginChecksPassed(r) ==
  svc # "fp0" =>
    /\ rq[r].submitted => rq[r].leftLogin
    /\ ~isLoginPage(rq[r].url)

Preferred(envValue, queryValue) ==
  IF envValue # NONE /\ envValue # "" THEN envValue ELSE queryValue

\* C12: for the username and for the password separately, the value used for
\* the login is the environment's (WALLA_USER / WALLA_PASS) when that is
\* non-empty, whatever the query parameter holds, and the query parameter's
\* ('user' / 'pass') only when the environment's is unset or empty; it is
\* the value typed into the login form.
C12_CredentialPrecedence ==
  /\ [][\A r \in Reqs :
          (Received(r) /\ rq'[r].pc = "launch") =>
            /\ rq'[r].username = Preferred(env.WALLA_USER, inbox[r].qUser)
            /\ rq'[r].password = Preferred(env.WALLA_PASS, inbox[r].qPass)]_vars
  /\ [][\A r \in Reqs :
          rq[r].pc # "waiting" =>
            /\ rq'[r].username = rq[r].username
            /\ rq'[r].password = rq[r].password]_vars
  /\ [](\A r \in Reqs :
          /\ "email" \in rq[r].typed => rq[r].emailTyped = rq[r].username
          /\ "password" \in rq[r].typed => rq[r].passTyped = rq[r].password
          /\ rq[r].emailTyped \in {NONE, rq[r].username}
          /\ rq[r].passTyped \in {NONE, rq[r].password})

\* C12 witness: with WALLA_USER set and WALLA_PASS empty, the login form was
\* filled with the environment's user name and the query's password
C12_Witness ==
  \E r \in Reqs :
    /\ env.WALLA_USER = "e" /\ env.WALLA_PASS = ""
    /\ rq[r].typed = {"email", "password"}
    /\ rq[r].emailTyped = "e"
    /\ rq[r].passTyped = "q"

----------------------------------------------------------------------------
(* Properties of the error mapping and of the navigation checks *)

NoExportButtonResponse == JsonError(200, "false", "no_export_button")

ExportFailedResponse == JsonError(500, "false", "export_failed")

\* C13: in the first-purchase service of src/server.js the response
\* 200 {ok:false, error:"no_export_button"} is sent only when the export
\* lookup ran out of strategies (nothing was located or clicked), and a
\* request that failed anywhere else (launch, session setup, login,
\* navigation, export click, download wait, stream, close) is answered
\* 500 {ok:false, error:"export_failed"}.
C13_NoExportButtonOnlyOnExhaustion ==
  \A r \in Reqs :
    (svc = "fp" /\ Answered(r)) =>
      /\ Answer(r) = NoExportButtonResponse =>
           /\ ChainExhausted(r)
           /\ rq[r].err = "exportNotFound"
           /\ rq[r].exportClicks = 0 /\ rq[r].downloads = 0
      /\ (rq[r].err # NONE /\ rq[r].err # "exportNotFound") =>
           Answer(r) = ExportFailedResponse
      /\ (Answer(r).ok = "false" /\ Answer(r).status \notin {400, 401}) =>
           Answer(r) \in {NoExportButtonResponse, ExportFailedResponse}

\* C13 witness: server.js answered no_export_button after both strategies
\* of its lookup had timed out
C13_Witness ==
  \E r \in Reqs :
    /\ svc = "fp"
    /\ rq[r].tried = <<"role", "textContains">>
    /\ rq[r].located = NONE
    /\ Answered(r) /\ Answer(r) = NoExportButtonResponse

----------------------------------------------------------------------------
(* Properties of concurrent requests *)

\* request r has been received and not yet answered
InFlight(r) == rq[r].pc \notin {"waiting", "done"}

\* the response the handler's own record calls for
OwnOutcome(r) ==
  IF rq[r].err # NONE THEN ErrorResponse(svc, rq[r].err)
  ELSE SuccessResponse(rq[r].result, rq[r].webhookResult)

\* C14: for any interleaving of two concurrent export requests, each request
\* launches and uses its own browser: no browser is used by two requests; a
\* step of one request, the close of its browser included, changes neither
\* the other request's state nor the other's browser; a request in flight can
\* always take its next step whatever the other has done; and its response
\* is the one its own flow calls for.
C14_Isolation ==
  /\ [](\A r \in Reqs :
          /\ Launched(r) =>
               /\ browsers[rq[r].browser].owner = r
               /\ \A o \in Reqs \ {r} : rq[o].browser # rq[r].browser
               /\ CloseCalls(r) = IF LeftWithBrowser(r) THEN 1 ELSE 0
               /\ ~LeftWithBrowser(r) => browsers[rq[r].browser].state = "open"
          /\ InFlight(r) => ENABLED Step(r)
          /\ Answered(r) => rq[r].resp = <<OwnOutcome(r)>>)
  /\ [][\A r \in Reqs :
          rq'[r] # rq[r] =>
            \A o \in Reqs \ {r} :
              /\ rq'[o] = rq[o]
              /\ Launched(o) =>
                   browsers'[rq[o].browser] = browsers[rq[o].browser]]_vars

\* C14 witness: the first request failed during session setup and its
\* browser was closed while the second request, launched as well, went on
\* with its own open browser and was answered ok:true
C14_Witness ==
  /\ rq[1].err = "setupFailed" /\ rq[1].pc = "done"
  /\ browsers[rq[1].browser].state = "closed"
  /\ Launched(2) /\ rq[2].browser # rq[1].browser
  /\ Succeeded(2)
  /\ browsers[rq[2].browser].closeCalls = 1

----------------------------------------------------------------------------
(* Properties of the configuration *)

\* the gate lets a request presenting 'presented' through under token 'token'
Lets(token, presented) == token \in {NONE, ""} \/ presented = token

\* the credential a request presents: its header when it has one, else its key
Presented(m) == IF m.hdrKey \notin {NONE, ""} THEN m.hdrKey ELSE m.qKey

\* request r is received under configuration e: it is gated by e's token and
\* logs in with e's credentials
HandledUnder(e, r) ==
  LET m == inbox[r] IN
  /\ rq'[r].admitted <=> Lets(e.SCRAPER_TOKEN, Presented(m))
  /\ rq'[r].pc = "launch" =>
       /\ rq'[r].username = Preferred(e.WALLA_USER, m.qUser)
       /\ rq'[r].password = Preferred(e.WALLA_PASS, m.qPass)

\* what a request was gated and resolved to stays with it to its end
KeepsItsConfiguration ==
  /\ [][\A r \in Reqs :
          rq[r].pc # "waiting" =>
            /\ rq'[r].admitted = rq[r].admitted
            /\ rq'[r].username = rq[r].username
            /\ rq'[r].password = rq[r].password]_vars
  /\ [](\A r \in Reqs :
          /\ rq[r].emailTyped \in {NONE, rq[r].username}
          /\ rq[r].passTyped \in {NONE, rq[r].password})

\* C15 (as claimed): the token and the credentials in effect for a request
\* are those configured at process start; a change of the environment
\* between two requests changes neither how the second is gated nor the
\* credentials it uses.
C15_ReadAtStart ==
  [][\A r \in Reqs : Received(r) => HandledUnder(ConfiguredEnv, r)]_vars

\* C15 (amended): the token and the credentials in effect for a request are
\* those the process environment holds when the request is received; a
\* change of the environment between two requests does change how the second
\* is gated and the credentials it uses, and a change during a request
\* changes nothing for that request.
C15_ReadPerRequest ==
  /\ [][\A r \in Reqs : Received(r) => HandledUnder(env, r)]_vars
  /\ KeepsItsConfiguration

\* C15 witness: the user name was changed after the first request had logged
\* in with the one set at start; the second request typed the new one, and
\* went on typing its own password after the token was changed as well
C15_Witness ==
  /\ rq[1].emailTyped = "e" /\ rq[1].pc = "done"
  /\ rq[2].emailTyped = "e2" /\ rq[2].admitted
  /\ rq[2].passTyped = "e"
  /\ env.SCRAPER_TOKEN = "new"

\* the default port the README and the Dockerfile give
DocumentedPort == 8082

\* C16 (as claimed): with PORT not set the server listens on port 8082; with
\* PORT set it listens on that port.
C16_DefaultPort ==
  listening # NotListening =>
    /\ env.PORT = NONE => listening = DocumentedPort
    /\ env.PORT = "9090" => listening = 9090

----------------------------------------------------------------------------
(* Properties of the login and report page checks *)

\* the errors with which the flow says the page is (still) the login page:
\* the timeout of the wait after the login click, the check that follows it,
\* the check after the login block and the check after the re-navigation
LoginPageErrors ==
  {"loginTimeout", "loginFailedStillOnLogin", "stillOnLogin", "unexpectedRedirect"}

\* C17 (as claimed): in the services that test for the login page (all but
\* the earliest variant), at every such test (before login, after the login
\* click, after login, after re-navigation) the page is treated as a login
\* page iff the path of its URL contains '/login': the login form is filled
\* and the login-page errors are raised only on such a URL, whatever the
\* query string holds, and the flow goes on only from a URL off that path.
C17_LoginPageByPathOnly ==
  /\ [](\A r \in Reqs :
          svc # "fp0" =>
            /\ rq[r].err \in LoginPageErrors => PathIncludesLogin(rq[r].url)
            /\ (rq[r].pc = "emailWait" /\ rq[r].err = NONE) =>
                 PathIncludesLogin(rq[r].url))
  /\ [][\A r \in Reqs :
          (svc # "fp0" /\ rq'[r].url # rq[r].url
             /\ rq'[r].pc \in {"reportWait", "settle", "explicitGoto"}) =>
            ~PathIncludesLogin(rq'[r].url)]_vars
  /\ [][\A r \in Reqs :
          (svc # "fp0" /\ rq'[r].url # rq[r].url
             /\ PathIncludesLogin(rq'[r].url)) =>
            \/ rq'[r].pc = "emailWait"
            \/ rq'[r].err \in LoginPageErrors
            \/ rq'[r].pc \in {"fallbackGoto", "fallbackIdle", "explicitIdle"}]_vars

\* the positions of the flow from the settle delay before the lookup to the
\* click on the located control
AtLookup == {"settle", "headerWait", "locate", "exportClick"}

\* C18 (as claimed): whenever the flow starts looking for the export control
\* the path of the page's URL is the service's report path; the flow gets
\* there without an explicit navigation to the report URL only from the
\* report page itself, so a landing on any other page that is not the login
\* page always triggers that navigation; the lookup never starts on a page
\* that is neither the login page nor the report page.
C18_LookupOnReportPage ==
  /\ [](\A r \in Reqs :
          (rq[r].pc \in AtLookup \/ ExportTouched(r)) => isReportPage(rq[r].url))
  /\ [][\A r \in Reqs :
          (rq'[r].pc = "settle" /\ rq[r].pc \notin {"explicitGoto", "explicitIdle"}) =>
            isReportPage(rq'[r].url)]_vars

\* the step ends the login step of request r: the first navigation showed
\* that no login is needed, or the login and the wait or navigation that
\* follows it are over (the earliest variant: the click and its wait)
LoginStepOver(r) ==
  IF svc = "fp0"
  THEN rq[r].pc = "loginClick" /\ rq'[r].err = NONE
  ELSE /\ rq[r].pc \in {"gotoLogin", "reportWait", "fallbackGoto", "fallbackIdle"}
       /\ rq'[r].pc \notin {"emailWait", "fallbackGoto", "fallbackIdle"}
       /\ rq'[r].err # "navigationFailed"

\* C19 (as claimed): if the page is on the login path when the login step is
\* over (or when no login was needed) the request fails with the
\* still-on-login error; and the export control is never looked up or
\* clicked after a login check found the page on the login path.
C19_StillOnLogin ==
  /\ [][\A r \in Reqs :
          (LoginStepOver(r) /\ isLoginPage(rq'[r].url)) =>
            /\ rq'[r].err = "stillOnLogin"
            /\ rq'[r].pc = "close"]_vars
  /\ [](\A r \in Reqs :
          /\ rq[r].err \in LoginPageErrors =>
               /\ ~ExportTouched(r)
               /\ rq[r].pc \in {"close", "done"}
          /\ (rq[r].pc = "done" /\ rq[r].err = "stillOnLogin") =>
               rq[r].resp = <<ExportFailedResponse>>)

\* the step ends the explicit navigation to the report URL that follows the
\* test for the report page: the navigation itself (part_001) or the wait
\* for network idle after it (server.js)
ExplicitNavigationOver(r) ==
  /\ rq[r].pc \in {"explicitGoto", "explicitIdle"}
  /\ rq'[r].pc # "explicitIdle"
  /\ rq'[r].err # "navigationFailed"

\* C20 (as claimed): in the first-purchase service (server.js, part_001),
\* whenever the explicit navigation to the report URL after login ends on
\* the login path the request fails with the unexpected-login-redirect
\* error; that error is raised nowhere else, and the still-on-login error is
\* raised only by the check that follows the login step.
C20_UnexpectedRedirect ==
  [][\A r \in Reqs :
       svc \in {"fp", "fp1"} =>
         /\ (ExplicitNavigationOver(r) /\ isLoginPage(rq'[r].url)) =>
              /\ rq'[r].err = "unexpectedRedirect"
              /\ rq'[r].pc = "close"
         /\ (rq[r].err = NONE /\ rq'[r].err = "unexpectedRedirect") =>
              rq[r].pc \in {"explicitGoto", "explicitIdle"}
         /\ (rq[r].err = NONE /\ rq'[r].err = "stillOnLogin") =>
              rq[r].pc \in {"gotoLogin", "reportWait", "fallbackGoto", "fallbackIdle"}]_vars

----------------------------------------------------------------------------
(* Properties of the export lookup and of the login form *)

\* the chain of strategies the claim names: role, exact text, broad text
ClaimedChain == <<"role", "textExact", "textContains">>

\* sequence s is an initial part of sequence t
IsPrefix(s, t) == Len(s) <= Len(t) /\ \A i \in 1..Len(s) : s[i] = t[i]

\* the errors that say the export control was not found
NotFoundErrors == {"exportNotFound", "exportNotFoundOnPage", "locatorTimeout"}

\* C21 (as claimed): the export control is located by the ordered chain
\* role-button, exact text, broad text: a strategy is attempted only after
\* the previous one's wait expired, the first strategy that finds a visible
\* element is the one clicked and later ones are not attempted, and the
\* not-found failure is raised only after all three have expired.
C21_LocatorChain ==
  /\ [](\A r \in Reqs :
          /\ IsPrefix(rq[r].tried, ClaimedChain)
          /\ rq[r].located # NONE =>
               /\ Len(rq[r].tried) < Len(ClaimedChain)
               /\ rq[r].located = ClaimedChain[Len(rq[r].tried) + 1]
          /\ rq[r].exportClicks > 0 => rq[r].located # NONE
          /\ rq[r].err \in NotFoundErrors =>
               (rq[r].tried = ClaimedChain /\ rq[r].located = NONE))
  /\ [][\A r \in Reqs :
          /\ rq'[r].tried # rq[r].tried =>
               /\ rq[r].pc = "locate" /\ rq[r].located = NONE
               /\ Len(rq'[r].tried) = Len(rq[r].tried) + 1
               /\ IsPrefix(rq[r].tried, rq'[r].tried)
          /\ rq[r].located # NONE => rq'[r].located = rq[r].located]_vars

BothFields == {"email", "password"}

\* the errors of a login field that never became visible
FieldNotFoundErrors == {"emailNotFound", "passwordNotFound"}

\* C22: during login, credentials are typed only after both the username
\* field and the password field were found visible, and the submit control
\* is clicked only after both were filled; if either field never becomes
\* visible within its bound, login fails with a field-not-found error,
\* nothing is typed and the submit control is never clicked.
C22_LoginOrder ==
  /\ [](\A r \in Reqs :
          /\ rq[r].typed # {} => rq[r].found = BothFields
          /\ rq[r].loginClicks > 0 => rq[r].typed = BothFields
          /\ rq[r].err \in FieldNotFoundErrors =>
               /\ rq[r].found # BothFields
               /\ rq[r].typed = {} /\ rq[r].loginClicks = 0
               /\ rq[r].pc \in {"close", "done"})
  /\ [][\A r \in Reqs :
          /\ (rq[r].pc = "emailWait" /\ rq'[r].pc # "emailWait") =>
               IF "email" \in rq'[r].found THEN rq'[r].err = NONE
               ELSE rq'[r].err = "emailNotFound"
          /\ (rq[r].pc = "passWait" /\ rq'[r].pc # "passWait") =>
               IF "password" \in rq'[r].found THEN rq'[r].err = NONE
               ELSE rq'[r].err = "passwordNotFound"
          /\ rq[r].found # BothFields \/ rq[r].err # NONE =>
               /\ rq'[r].typed = rq[r].typed
               /\ rq'[r].loginClicks = rq[r].loginClicks]_vars

\* C22 witness: the email field was found, the password field never showed;
\* the request ended with nothing typed and no click on the submit control
C22_Witness ==
  \E r \in Reqs :
    /\ rq[r].found = {"email"}
    /\ rq[r].pc = "done" /\ Answered(r) /\ Answer(r).ok = "false"
    /\ rq[r].typed = {} /\ rq[r].loginClicks = 0
    /\ ClosedCleanly(r)

----------------------------------------------------------------------------
(* Properties of the download capture *)

\* the errors of the capture: the click failed, or no download event came
CaptureErrors == {"exportClickFailed", "downloadTimeout"}

\* C23: the wait for the download event is armed before the export click is
\* dispatched and runs concurrently with it, so a download event fired at any
\* time after the click (including immediately) is captured; if the click
\* fails or no download event arrives within the bound, the request fails and
\* no result is produced.
C23_DownloadCapture ==
  /\ [](\A r \in Reqs :
          /\ rq[r].exportClicks > 0 => rq[r].armed
          /\ rq[r].fired => (rq[r].exportClicks = 1 /\ rq[r].captured)
          /\ rq[r].downloads > 0 => rq[r].captured
          /\ rq[r].err \in CaptureErrors =>
               /\ rq[r].downloads = 0
               /\ rq[r].result = NoResult /\ ~rq[r].returned
               /\ rq[r].pc \in {"close", "done"}
               /\ Answered(r) => Answer(r).ok = "false")
  /\ [][\A r \in Reqs :
          /\ (rq[r].pc = "download" /\ rq'[r].pc # "download") =>
               IF rq'[r].err = NONE
               THEN rq[r].captured /\ rq'[r].downloads = 1
               ELSE rq'[r].err \in CaptureErrors /\ rq'[r].downloads = 0
          /\ (rq[r].pc = "download" /\ ~rq[r].fired /\ rq'[r].pc # "download") =>
               rq'[r].err \in CaptureErrors
          /\ (rq[r].captured /\ rq'[r].err = "downloadTimeout") =>
               rq[r].err = "downloadTimeout"]_vars

\* C23 witness: the download the site raised after the click was captured by
\* the wait armed before it, and the export went on to a file
C23_Witness ==
  \E r \in Reqs :
    /\ rq[r].pc = "createReadStream"
    /\ rq[r].armed /\ rq[r].fired /\ rq[r].captured
    /\ rq[r].exportClicks = 1 /\ rq[r].downloads = 1
    /\ rq[r].fileName = "export.csv"

\* the errors of a download whose stream cannot be had or read
StreamErrors == {"noDownloadStream", "downloadFailed", "streamError"}

\* a download was received for request r and the flow ended without a file
StreamFailed(r) ==
  /\ rq[r].downloads = 1
  /\ rq[r].result = NoResult
  /\ rq[r].pc \in {"close", "done"}

\* C24: if no readable stream can be obtained for the completed download, or
\* the stream reports an error while being read, the request fails with
\* 500 export_failed, no webhook POST is made, no ok:true response is sent,
\* and the browser is closed.
C24_StreamFailure ==
  /\ [](\A r \in Reqs :
          /\ rq[r].err \in StreamErrors => StreamFailed(r)
          /\ rq[r].streamEvent = "error" => StreamFailed(r)
          /\ StreamFailed(r) =>
               /\ rq[r].err # NONE /\ ~rq[r].returned
               /\ Len(PostsOf(r)) = 0
               /\ rq[r].pc = "done" =>
                    /\ rq[r].resp = <<ExportFailedResponse>>
                    /\ Launched(r) /\ CloseCalls(r) = 1)
  /\ [][\A r \in Reqs :
          /\ (rq[r].pc = "createReadStream" /\ ~rq'[r].streamOpen) =>
               (rq'[r].err \in StreamErrors /\ rq'[r].pc = "close")
          /\ (rq[r].pc = "streamToBuffer" /\ rq'[r].result = NoResult) =>
               (rq'[r].err = "streamError" /\ rq'[r].pc = "close")
          /\ (rq[r].pc = "streamToBuffer" /\ rq'[r].err = NONE) =>
               rq'[r].result.fileBase64 \in {Base64(b) : b \in FileContents}
          /\ StreamFailed(r) => StreamFailed(r)']_vars

\* C24 witness: createReadStream gave no stream in server.js, with a webhook
\* asked for; the browser was closed, nothing was posted and the request was
\* answered 500 export_failed
C24_Witness ==
  \E r \in Reqs :
    /\ svc = "fp" /\ Truthy(rq[r].webhook)
    /\ rq[r].err = "noDownloadStream"
    /\ rq[r].pc = "done" /\ ClosedCleanly(r)
    /\ rq[r].resp = <<ExportFailedResponse>>
    /\ Len(PostsOf(r)) = 0

----------------------------------------------------------------------------
(* Properties of the waits *)

\* the waits for network idle that follow a navigation to the report URL
IdleWaits == {"fallbackIdle", "explicitIdle"}

\* C25 (as claimed): in server.js, on every path that explicitly navigates to
\* the report URL after login, a network-idle wait that times out does not
\* abort the request: the wait raises no error of its own, and the flow
\* continues to the login-redirect check and from there towards the export
\* lookup.
C25_IdleTimeoutContinues ==
  [][\A r \in Reqs :
       (svc = "fp" /\ rq[r].pc \in IdleWaits /\ rq'[r].pc \notin IdleWaits) =>
         /\ rq'[r].err \in {NONE, "stillOnLogin", "unexpectedRedirect"}
         /\ rq'[r].err # NONE => isLoginPage(rq[r].url)
         /\ rq'[r].err = NONE => rq'[r].pc \in {"explicitGoto", "settle"}]_vars

\* C26 (as claimed): every export request that passes the gate and the
\* validation eventually receives a response, and its browser is eventually
\* closed, whatever the target site and the webhook endpoint do.
C26_EventuallyAnswered ==
  \A r \in Reqs :
    (rq[r].pc = "launch") ~>
      (rq[r].pc = "done" /\ Answered(r) /\ (Launched(r) => CloseCalls(r) = 1))

----------------------------------------------------------------------------
(* Properties of the session's device scale factor (values in tenths) *)

IsNumeric(h) == h.kind \in {"number", "numericString"}

\* n clamped into [1, 4]
Clamped(n) == IF n < 10 THEN 10 ELSE IF n > 40 THEN 40 ELSE n

\* C27 (as claimed): the device scale factor equals the hint clamped into
\* [1,4] for every numeric hint (hints below 1, including 0 and negatives,
\* give 1; hints above 4 give 4) and equals 2 when no hint or a non-numeric
\* hint is given; the factor is always within [1,4].
C27_DprClamp ==
  \A r \in Reqs :
    rq[r].launches > 0 =>
      LET h == rq[r].opts.dpr IN
      /\ rq[r].dpr \in 10..40
      /\ IsNumeric(h) => rq[r].dpr = Clamped(h.n)
      /\ ~IsNumeric(h) => rq[r].dpr = 20

\* C27 (amended): as above, but the hint 0 counts as no hint and gives 2.
C27_DprClampButZero ==
  \A r \in Reqs :
    rq[r].launches > 0 =>
      LET h == rq[r].opts.dpr IN
      /\ rq[r].dpr \in 10..40
      /\ (IsNumeric(h) /\ h.n # 0) => rq[r].dpr = Clamped(h.n)
      /\ (~IsNumeric(h) \/ h.n = 0) => rq[r].dpr = 20

\* C27 witness: withBrowser was called with the hint 0 and launched a
\* browser with the default factor 2
C27_Witness ==
  \E r \in Reqs :
    /\ rq[r].opts.dpr = NumberHint(0)
    /\ rq[r].launches = 1 /\ Launched(r)
    /\ rq[r].dpr = 20

----------------------------------------------------------------------------
(* Properties of the end of a request *)

\* the browser of request r is still open
SessionOpen(r) == Launched(r) /\ browsers[rq[r].browser].state = "open"

\* C28: on every path of a request that launched a browser, the browser
\* close has completed before the webhook POST is issued and before any HTTP
\* response for that request is sent; no response is sent while the session
\* is still open.
C28_CloseBeforeAnswer ==
  /\ [](\A r \in Reqs :
          /\ SessionOpen(r) => (~Answered(r) /\ Len(PostsOf(r)) = 0)
          /\ (Launched(r) /\ (Answered(r) \/ Len(PostsOf(r)) > 0)) =>
               CloseCalls(r) = 1)
  /\ [][\A r \in Reqs :
          (Launched(r) /\ (rq'[r].resp # rq[r].resp \/ PostsOf(r)' # PostsOf(r))) =>
            /\ ~SessionOpen(r)'
            /\ CloseCalls(r)' = 1]_vars

\* C28 witness: the webhook POST of a successful export is out and the
\* response not yet sent; the browser has been closed
C28_Witness ==
  \E r \in Reqs :
    /\ rq[r].pc = "webhook"
    /\ Len(PostsOf(r)) = 1 /\ ~Answered(r)
    /\ ClosedCleanly(r)

\* the responses of an export endpoint, by status and error code
ExportAnswers ==
  { <<401, "unauthorized">>, <<400, "missing_params">>,
    <<400, "missing_credentials">>, <<200, NONE>>,
    <<200, "no_export_button">>, <<500, "export_failed">> }

CloseFails(r) ==
  /\ rq[r].pc = "close"
  /\ browsers'[rq[r].browser].state = "closeFailed"

\* C30: an error raised while closing the browser overrides the outcome of
\* the work function: if the export succeeded but the close fails, the
\* request is answered 500 export_failed, the captured file is discarded and
\* no webhook POST is made; if the work function failed with
\* export-control-not-found and the close also fails, the response is
\* 500 export_failed rather than no_export_button.
C30_CloseErrorOverrides ==
  /\ [][\A r \in Reqs :
          CloseFails(r) =>
            /\ rq'[r].err = "closeFailed" /\ ~rq'[r].returned
            /\ rq'[r].resp = <<ExportFailedResponse>>
            /\ rq'[r].resp[1].fileBase64 = NONE /\ rq'[r].resp[1].fileName = NONE
            /\ rq'[r].pc = "done"
            /\ posts' = posts]_vars
  /\ [](\A r \in Reqs :
          (Launched(r) /\ browsers[rq[r].browser].state = "closeFailed") =>
            /\ Len(PostsOf(r)) = 0
            /\ rq[r].resp = <<ExportFailedResponse>>)

\* C30 witness: the export succeeded with a webhook asked for, and the close
\* failed: answered 500 export_failed with nothing posted
C30_Witness ==
  \E r \in Reqs :
    /\ rq[r].result.fileBase64 = Base64("a,b") /\ Truthy(rq[r].webhook)
    /\ browsers[rq[r].browser].state = "closeFailed"
    /\ rq[r].resp = <<ExportFailedResponse>>
    /\ Len(PostsOf(r)) = 0

====
